---- MODULE Spec2Model ----
(***************************************************************************)
(* Authentication core of python_auth_with_crud (FastAPI + MongoDB).       *)
(*                                                                         *)
(* The user directory is the MongoDB collection db.users.  Requests share   *)
(* nothing but the directory, so a directory call (find_one, insert_one,   *)
(* update_one) is one atomic step; the code between two directory calls of *)
(* a request is local and is folded into the step of the call before it.   *)
(*                                                                         *)
(* One request at a time is followed step by step (pc, loc, resp); the     *)
(* requests served meanwhile by other workers take effect between its      *)
(* steps (the Other... actions).  Every handler reads the directory first  *)
(* and writes it at most once afterwards, and two reads commute, so each   *)
(* interleaving of two requests is the same as one of them running         *)
(* between two steps of the other.                                         *)
(***************************************************************************)
EXTENDS Integers, Sequences, FiniteSets, TLC

\* ------------------------------------------------------------------ bounds
MaxUsers == 2       \* documents the collection may hold
MaxTime == 2        \* the clock runs 0..MaxTime
MaxLogins == 2      \* cap on login_count
MaxLifetime == 2    \* the lifetimes a caller passes to create_token: 1..MaxLifetime

\* the longest run of characters put before and after a username in a request
MaxFix == 1

\* the number of freely chosen characters at the head of a password in a request
MaxClassChars == 3

\* settings.jwt_expire_minutes, in clock ticks
JwtExpire == 1

Usernames == {"alice", "bob"}
Passwords == {"Passw0rd", "Other1234"}
\* the password a registration request carries
RegisterPasswords == {"Passw0rd"}

VARIABLES
    users,     \* db.users: sequence of documents in insertion order; _id = index
    now,       \* the wall clock (datetime.utcnow / the JWT library's clock)
    bearer,    \* the access token a client keeps for later requests: <<>> or <<token>>
    pc,        \* the position of the request that is followed
    loc,       \* its local variables
    resp       \* its response, until it is delivered

vars == <<users, now, bearer, pc, loc, resp>>

\* ------------------------------------------------------------ app.auth.password
\* hash_password: a one-way salted hash; modelled as a tagged wrapper that is not
\* the plaintext.
hash_password(plain) == <<"bcrypt", plain>>

verify_password(plain, hashed) == hashed = hash_password(plain)

\* -------------------------------------------------------------- responses
HTTPException(status, detail) == [exc |-> "HTTPException", status |-> status, detail |-> detail]

Response(status, body) == [exc |-> "none", status |-> status, body |-> body]

\* --------------------------------------------------------------- UserModel
\* UserModel.create_user_document
create_user_document(username, hashed_password) ==
    [ username    |-> username,
      password    |-> hashed_password,
      created_at  |-> now,
      updated_at  |-> now,
      is_active   |-> TRUE,
      last_login  |-> <<>>,
      login_count |-> 0 ]

\* UserModel.user_helper: the public projection of a document
user_helper(id, user) ==
    [ id         |-> id,
      username   |-> user.username,
      created_at |-> user.created_at,
      updated_at |-> user.updated_at,
      is_active  |-> user.is_active,
      last_login |-> user.last_login ]

\* UserOut(**fields): the response model keeps its own fields and drops the rest
UserOut(fields) ==
    [ id         |-> fields.id,
      username   |-> fields.username,
      created_at |-> fields.created_at,
      updated_at |-> fields.updated_at,
      is_active  |-> fields.is_active,
      last_login |-> fields.last_login ]

\* variant: a login update that also sets is_active
update_last_login_reactivating(user) ==
    [user EXCEPT !.last_login = <<now>>,
                 !.updated_at = now,
                 !.is_active = TRUE,
                 !.login_count = @ + 1]

\* UserModel.update_last_login applied by update_one: $set last_login, updated_at;
\* $inc login_count
update_last_login(user) ==
    [user EXCEPT !.last_login = <<now>>,
                 !.updated_at = now,
                 !.login_count = @ + 1]

\* ------------------------------------------------------------- the directory
\* DatabaseManager.connect opens the client and selects the database; it creates
\* no index, so the collection has no uniqueness constraint on username.
UniqueUsernameIndex == FALSE

\* ids of the documents matching {"username": u}
Matching(u) == {i \in DOMAIN users : users[i].username = u}

\* find_one({"username": u}): some matching document's id, or 0 for None.  MongoDB
\* returns the first match in natural order, which the code does not control.
find_one(u) == IF Matching(u) = {} THEN {0} ELSE Matching(u)

\* find_one({"_id": id})
find_by_id(id) == IF id \in DOMAIN users THEN id ELSE 0

\* insert_one raises DuplicateKeyError only under a unique index
DuplicateKey(doc) == UniqueUsernameIndex /\ Matching(doc.username) # {}

\* ------------------------------------------------------------- jwt_handler
\* variant: create_token that does not add the lifetime to the clock reading
create_token_unextended(sub, expires_minutes, skew) ==
    [ sub  |-> sub,
      exp  |-> now,
      iat  |-> now + skew,
      type |-> "access_token",
      sig  |-> "HS256" ]

\* create_token(data, expires_minutes): exp is computed from a first clock
\* reading, iat is a second clock reading taken `skew` ticks later.
create_token_expiring(sub, expires_minutes, skew) ==
    [ sub  |-> sub,
      exp  |-> now + expires_minutes,
      iat  |-> now + skew,
      type |-> "access_token",
      sig  |-> "HS256" ]

\* create_token(data): expires_minutes is None and defaults to
\* settings.jwt_expire_minutes
create_token(sub, skew) == create_token_expiring(sub, JwtExpire, skew)

\* variant: jwt.decode with verify_exp switched off
TokenRejection_no_exp(token, t) ==
    IF token.sig # "HS256" THEN "JWTError"
    ELSE IF token.type # "access_token" THEN "Invalid token type"
    ELSE "none"

\* variant: decode_token without the check of the payload's type
TokenRejection_any_type(token, t) ==
    IF token.sig # "HS256" THEN "JWTError"
    ELSE IF token.exp < t THEN "ExpiredSignatureError"
    ELSE "none"

\* decode_token at clock reading t: <<payload>>, or <<>> for None.  jwt.decode
\* checks the signature, then exp (expired when exp < t); then the type is checked.
TokenRejection(token, t) ==
    IF token.sig # "HS256" THEN "JWTError"
    ELSE IF token.exp < t THEN "ExpiredSignatureError"
    ELSE IF token.type # "access_token" THEN "Invalid token type"
    ELSE "none"

decode_token(token, t) == IF TokenRejection(token, t) = "none" THEN <<token>> ELSE <<>>

\* ------------------------------------------------------------ request steps
Idle == [op |-> "idle"]

\* the request ends: `out` is what the caller receives (a Response or the
\* HTTPException that left the handler); `req` is the request it answers, with
\* the id of the document the handler's find_one returned (0 for None)
Finish(op, req, out) ==
    /\ pc' = "done"
    /\ loc' = Idle
    /\ resp' = [op |-> op, req |-> req, out |-> out]

Goto(label, locals) ==
    /\ pc' = label
    /\ loc' = locals
    /\ UNCHANGED resp

\* ---------------------------------------------------------- register_user
\* the except clauses of register_user: DuplicateKeyError -> 400, any other
\* Exception (HTTPException is one) -> 500
register_except(e) ==
    IF e.exc = "DuplicateKeyError"
    THEN HTTPException(400, "Username already registered")
    ELSE HTTPException(500, "Internal server error")

\* the existence check: the exception raised inside the try block, or none
register_check(existing) ==
    IF existing # 0
    THEN HTTPException(400, "Username already registered")
    ELSE Response(200, <<>>)

\* insert_one(user_doc): the exception raised, or none
insert_check(user_doc) ==
    IF DuplicateKey(user_doc) THEN [exc |-> "DuplicateKeyError"] ELSE Response(200, <<>>)

\* find_one existence check, then hash_password and create_user_document
RegisterFind(username, password) ==
    /\ pc = "idle"
    /\ \E existing \in find_one(username) :
         LET r == register_check(existing)
         IN  IF r.exc # "none"
             THEN Finish("register", [username |-> username, read |-> existing],
                         register_except(r))
             ELSE Goto("register", [username |-> username,
                                    hashed_password |-> hash_password(password)])
    /\ UNCHANGED <<users, now, bearer>>

\* insert_one, find_one by the inserted id, UserOut(user_helper(created_user))
RegisterInsert ==
    /\ pc = "register"
    /\ Len(users) < MaxUsers
    /\ LET user_doc == create_user_document(loc.username, loc.hashed_password)
           r == insert_check(user_doc)
           req == [username |-> loc.username, read |-> 0]
       IN  IF r.exc # "none"
           THEN /\ Finish("register", req, register_except(r))
                /\ UNCHANGED users
           ELSE /\ users' = Append(users, user_doc)
                /\ Finish("register", req,
                          Response(201, UserOut(user_helper(Len(users) + 1, user_doc))))
    /\ UNCHANGED <<now, bearer>>

\* a whole register_user request of another worker
OtherRegister(username, password) ==
    /\ pc # "done"
    /\ Len(users) < MaxUsers
    /\ LET user_doc == create_user_document(username, hash_password(password))
       IN  /\ \E existing \in find_one(username) : register_check(existing).exc = "none"
           /\ insert_check(user_doc).exc = "none"
           /\ users' = Append(users, user_doc)
    /\ UNCHANGED <<now, bearer, pc, loc, resp>>

\* ------------------------------------------------------------- login_user
\* the except clauses of login_user: HTTPException is re-raised, anything else -> 500
login_except(e) ==
    IF e.exc = "HTTPException" THEN e
    ELSE HTTPException(500, "Internal server error")

\* login_user up to the password check: the exception raised, or none
login_check(user, password) ==
    IF user = 0
    THEN HTTPException(401, "Incorrect username and password")
    ELSE IF ~verify_password(password, users[user].password)
    THEN HTTPException(401, "Incorrect username or password")
    ELSE Response(200, <<>>)

\* the token response of both login routes
TokenResponse(token) ==
    Response(200, [access_token |-> token, token_type |-> "bearer",
                   expires_in |-> JwtExpire * 60])

\* update_one(update_last_login) on document id, then create_token for `sub`:
\* the clock may advance between create_token's two readings, and create_token
\* raises when settings carries no JWT configuration or jwt.encode fails.  The
\* client may keep the token it receives.
IssueToken(id, sub, skew, raised, keep) ==
    /\ users[id].login_count < MaxLogins
    /\ now + skew <= MaxTime
    /\ raised => (skew = 0 /\ ~keep)
    /\ users' = [users EXCEPT ![id] = update_last_login(@)]
    /\ now' = now + skew
    /\ bearer' = IF keep THEN <<create_token(sub, skew)>> ELSE bearer

\* find_one by username, then the checks on the document
LoginFind(username, password) ==
    /\ pc = "idle"
    /\ \E user \in find_one(username) :
         LET r == login_check(user, password)
         IN  IF r.exc # "none"
             THEN Finish("login", [password |-> password, read |-> user],
                         login_except(r))
             ELSE Goto("login", [id |-> user, password |-> password,
                                 username |-> users[user].username])
    /\ UNCHANGED <<users, now, bearer>>

\* update_one, create_token, TokenResponse
LoginUpdate ==
    /\ pc = "login"
    /\ \E skew \in {0, 1}, raised \in BOOLEAN, keep \in BOOLEAN :
         /\ IssueToken(loc.id, loc.username, skew, raised, keep)
         /\ Finish("login", [password |-> loc.password, read |-> loc.id],
                   IF raised THEN login_except([exc |-> "Exception"])
                   ELSE TokenResponse(create_token(loc.username, skew)))

\* a whole login_user request of another worker that got past the checks
OtherLogin(username, password) ==
    /\ pc # "done"
    /\ \E user \in find_one(username) :
         /\ login_check(user, password).exc = "none"
         /\ \E skew \in {0, 1}, raised \in BOOLEAN, keep \in BOOLEAN :
              IssueToken(user, users[user].username, skew, raised, keep)
    /\ UNCHANGED <<pc, loc, resp>>

\* -------------------------------------------------------- login_user_json
\* the except clauses of login_user_json
login_json_except(e) ==
    IF e.exc = "HTTPException" THEN e
    ELSE HTTPException(500, "Login failed. Please try again.")

\* variant: login_user_json without the is_active check
login_json_check_unchecked(user, password) ==
    IF user = 0
    THEN HTTPException(401, "Invalid username or password")
    ELSE IF ~verify_password(password, users[user].password)
    THEN HTTPException(401, "Invalid username or password")
    ELSE Response(200, <<>>)

\* variant: login_user_json examining is_active before the password
login_json_check_active_first(user, password) ==
    IF user = 0
    THEN HTTPException(401, "Invalid username or password")
    ELSE IF ~users[user].is_active
    THEN HTTPException(401, "Account is deactivated")
    ELSE IF ~verify_password(password, users[user].password)
    THEN HTTPException(401, "Invalid username or password")
    ELSE Response(200, <<>>)

\* login_user_json up to the active check: the exception raised, or none
login_json_check(user, password) ==
    IF user = 0
    THEN HTTPException(401, "Invalid username or password")
    ELSE IF ~verify_password(password, users[user].password)
    THEN HTTPException(401, "Invalid username or password")
    ELSE IF ~users[user].is_active
    THEN HTTPException(401, "Account is deactivated")
    ELSE Response(200, <<>>)

\* find_one by username, then the checks on the document
LoginJsonFind(username, password) ==
    /\ pc = "idle"
    /\ \E user \in find_one(username) :
         LET r == login_json_check(user, password)
         IN  IF r.exc # "none"
             THEN Finish("login_json", [password |-> password, read |-> user],
                         login_json_except(r))
             ELSE Goto("login_json", [id |-> user, password |-> password,
                                      username |-> users[user].username])
    /\ UNCHANGED <<users, now, bearer>>

\* update_one, create_token, TokenResponse
LoginJsonUpdate ==
    /\ pc = "login_json"
    /\ \E skew \in {0, 1}, raised \in BOOLEAN, keep \in BOOLEAN :
         /\ IssueToken(loc.id, loc.username, skew, raised, keep)
         /\ Finish("login_json", [password |-> loc.password, read |-> loc.id],
                   IF raised THEN login_json_except([exc |-> "Exception"])
                   ELSE TokenResponse(create_token(loc.username, skew)))

\* a whole login_user_json request of another worker that got past the checks
OtherLoginJson(username, password) ==
    /\ pc # "done"
    /\ \E user \in find_one(username) :
         /\ login_json_check(user, password).exc = "none"
         /\ \E skew \in {0, 1}, raised \in BOOLEAN, keep \in BOOLEAN :
              IssueToken(user, users[user].username, skew, raised, keep)
    /\ UNCHANGED <<pc, loc, resp>>

\* -------------------------------------------------------- get_current_user
credentials_exception == HTTPException(401, "Could not validate credentials")

\* oauth2_schema (OAuth2PasswordBearer, auto_error left at its default): the
\* bearer token of the Authorization header, or 401 when the request carries none.
\* authorization is <<>> or <<token>>.
oauth2_schema(authorization) ==
    IF authorization = <<>>
    THEN HTTPException(401, "Not authenticated")
    ELSE Response(200, authorization[1])

\* payload.get("sub") is None
NoSubject(payload) == "sub" \notin DOMAIN payload

\* variant: get_current_user without the is_active check
current_user_unchecked(payload, user) ==
    IF payload = <<>>
    THEN HTTPException(401, "Could not validate credentials")
    ELSE IF NoSubject(payload[1])
    THEN HTTPException(401, "Could not validate credentials")
    ELSE IF user = 0
    THEN HTTPException(404, "User not found")
    ELSE Response(200, [ username  |-> users[user].username,
                         user_id   |-> user,
                         is_active |-> users[user].is_active ])

\* get_current_user once the token is decoded and the directory is read
\* (find_one by the subject, password excluded): the principal, or the exception
current_user(payload, user) ==
    IF payload = <<>>
    THEN credentials_exception
    ELSE IF NoSubject(payload[1])
    THEN credentials_exception
    ELSE IF user = 0
    THEN HTTPException(404, "User not found")
    ELSE IF ~users[user].is_active
    THEN HTTPException(401, "Account is deactivated")
    ELSE Response(200, [ username  |-> users[user].username,
                         user_id   |-> user,
                         is_active |-> users[user].is_active ])

\* a token whose signature was not made with settings.jwt_secret
ForgedToken == [sub |-> "alice", exp |-> MaxTime + JwtExpire, iat |-> 0,
                type |-> "access_token", sig |-> "forged"]

\* a token signed with settings.jwt_secret whose type is not "access_token"
WrongKindToken == [sub |-> "alice", exp |-> MaxTime + JwtExpire, iat |-> 0,
                   type |-> "refresh_token", sig |-> "HS256"]

\* a token signed with settings.jwt_secret that carries no sub
NoSubjectToken == [exp |-> MaxTime + JwtExpire, iat |-> 0,
                   type |-> "access_token", sig |-> "HS256"]

\* the tokens a client can present: the one it kept, or one made elsewhere
Presentable ==
    {bearer[i] : i \in DOMAIN bearer} \cup {ForgedToken, WrongKindToken, NoSubjectToken}

\* the documents find_one may return to get_current_user (0 for None, and when
\* the directory is not read at all)
gate_find_one(payload) ==
    IF payload = <<>> THEN {0}
    ELSE IF NoSubject(payload[1]) THEN {0}
    ELSE find_one(payload[1].sub)

GetCurrentUser(token) ==
    /\ pc = "idle"
    /\ LET payload == decode_token(token, now)
       IN  \E user \in gate_find_one(payload) :
             Finish("get_current_user", [token |-> token, read |-> user],
                    current_user(payload, user))
    /\ UNCHANGED <<users, now, bearer>>

\* ------------------------------------------------ get_current_user_optional
\* get_current_user_optional: an HTTPException of get_current_user becomes None
\* (<<>>), a principal is passed on
current_user_optional(r) ==
    IF r.exc = "HTTPException" THEN Response(200, <<>>)
    ELSE Response(200, <<r.body>>)

\* the dependency oauth2_schema is resolved first; its exception never enters
\* get_current_user_optional
GetCurrentUserOptional(authorization) ==
    /\ pc = "idle"
    /\ LET t == oauth2_schema(authorization)
       IN  IF t.exc # "none"
           THEN Finish("get_current_user_optional",
                       [authorization |-> authorization, read |-> 0], t)
           ELSE LET payload == decode_token(t.body, now)
                IN  \E user \in gate_find_one(payload) :
                      Finish("get_current_user_optional",
                             [authorization |-> authorization, read |-> user],
                             current_user_optional(current_user(payload, user)))
    /\ UNCHANGED <<users, now, bearer>>

\* ------------------------------------------------ UserService (by document id)
\* the except clauses of the UserService methods: HTTPException is re-raised
service_except(e) ==
    IF e.exc = "HTTPException" THEN e
    ELSE HTTPException(500, "Internal server error")

\* the existence check of the by-id methods: the exception raised, or none
service_check(existing) ==
    IF existing = 0
    THEN HTTPException(404, "User not found")
    ELSE Response(200, <<>>)

\* a path parameter that is no ObjectId (not 24 hexadecimal digits); the ids of
\* documents are 1, 2, ...
MalformedId == -1

\* variant: validate_object_id accepting every string
validate_object_id_any(user_id) == TRUE

\* UserModel.validate_object_id
validate_object_id(user_id) == user_id >= 1

\* the checks that open the by-id methods: the id's format, then the existence
\* of the document (`existing` is what find_one by id returned)
by_id_check(user_id, existing, detail) ==
    IF ~validate_object_id(user_id)
    THEN HTTPException(400, detail)
    ELSE service_check(existing)

\* update_one's modified_count: 1 when the matched document changes, else 0
modified_count(id, doc) == IF id \in DOMAIN users /\ users[id] # doc THEN 1 ELSE 0

\* ---- deactivate_user_by_id
\* variant: a $set that also clears the login fields
deactivated_clearing_login(user) ==
    [user EXCEPT !.is_active = FALSE, !.updated_at = now,
                 !.last_login = <<>>, !.login_count = 0]

\* the document after $set {is_active: False, updated_at: utcnow()}
deactivated(user) == [user EXCEPT !.is_active = FALSE, !.updated_at = now]

\* the outcome of deactivate_user_by_id after update_one
deactivate_result(modified) ==
    IF modified = 0
    THEN HTTPException(400, "User already deactivated")
    ELSE Response(204, <<>>)

\* variant: delete_one in place of the $set of is_active
DeleteUser(id) ==
    /\ pc = "idle"
    /\ LET r == service_check(find_by_id(id))
       IN  IF r.exc # "none"
           THEN /\ Finish("deactivate", [id |-> id, read |-> 0], service_except(r))
                /\ UNCHANGED users
           ELSE /\ users' = [k \in 1..(Len(users) - 1) |->
                                IF k < id THEN users[k] ELSE users[k + 1]]
                /\ Finish("deactivate", [id |-> id, read |-> id], Response(204, <<>>))
    /\ UNCHANGED <<now, bearer>>

\* deactivate_user_by_id.  No operation removes a document, so the existence
\* check (find_one by id) holds until update_one: the two calls are one step.
DeactivateUser(id) ==
    /\ pc = "idle"
    /\ LET r == by_id_check(id, find_by_id(id), "Invalid user ID")
       IN  IF r.exc # "none"
           THEN /\ Finish("deactivate", [id |-> id, read |-> 0], service_except(r))
                /\ UNCHANGED users
           ELSE LET d == deactivate_result(modified_count(id, deactivated(users[id])))
                IN  /\ users' = [users EXCEPT ![id] = deactivated(@)]
                    /\ Finish("deactivate", [id |-> id, read |-> id],
                              IF d.exc # "none" THEN service_except(d) ELSE d)
    /\ UNCHANGED <<now, bearer>>

OtherDeactivate(id) ==
    /\ pc # "done"
    /\ service_check(find_by_id(id)).exc = "none"
    /\ users' = [users EXCEPT ![id] = deactivated(@)]
    /\ UNCHANGED <<now, bearer, pc, loc, resp>>

\* ---- update_user_by_id
\* UserUpdate: every field is optional (<<>> for None) and none is validated
UserUpdate == [username : {<<>>} \cup {<<u>> : u \in Usernames},
               is_active : {<<>>, <<TRUE>>, <<FALSE>>}]

\* the document after $set update_data
updated(user, user_update) ==
    [user EXCEPT !.username = IF user_update.username # <<>>
                              THEN user_update.username[1] ELSE @,
                 !.is_active = IF user_update.is_active # <<>>
                               THEN user_update.is_active[1] ELSE @,
                 !.updated_at = now]

\* variant: find_one without the {"password": 0} projection
with_password(id, user) ==
    [ id          |-> id,
      username    |-> user.username,
      password    |-> user.password,
      created_at  |-> user.created_at,
      updated_at  |-> user.updated_at,
      is_active   |-> user.is_active,
      last_login  |-> user.last_login,
      login_count |-> user.login_count ]

\* find_one(password excluded) of the updated document, with its id
without_password(id, user) ==
    [ id          |-> id,
      username    |-> user.username,
      created_at  |-> user.created_at,
      updated_at  |-> user.updated_at,
      is_active   |-> user.is_active,
      last_login  |-> user.last_login,
      login_count |-> user.login_count ]

\* update_user_by_id: find_one by id, update_one, find_one by id; one step, as
\* in DeactivateUser
UpdateUser(id, user_update) ==
    /\ pc = "idle"
    /\ LET r == by_id_check(id, find_by_id(id), "Invalid user ID format")
           req == [id |-> id, user_update |-> user_update, read |-> find_by_id(id)]
       IN  IF r.exc # "none"
           THEN /\ Finish("update", req, service_except(r))
                /\ UNCHANGED users
           ELSE /\ users' = [users EXCEPT ![id] = updated(@, user_update)]
                /\ Finish("update", req,
                          Response(200, without_password(id, updated(users[id], user_update))))
    /\ UNCHANGED <<now, bearer>>

OtherUpdate(id, user_update) ==
    /\ pc # "done"
    /\ service_check(find_by_id(id)).exc = "none"
    /\ users' = [users EXCEPT ![id] = updated(@, user_update)]
    /\ UNCHANGED <<now, bearer, pc, loc, resp>>

\* ------------------------------------------------- the directory unreachable
\* what a directory call raises when MongoDB cannot be reached (pymongo's error,
\* or the AttributeError of db_manager.db being None)
DirectoryError == [exc |-> "PyMongoError", detail |-> "ServerSelectionTimeoutError"]

\* the except clauses of get_current_user
get_current_user_except(e) ==
    IF e.exc = "HTTPException" THEN e ELSE credentials_exception

\* register_user: the existence check's find_one raises
RegisterFindFails(username) ==
    /\ pc = "idle"
    /\ Finish("register", [username |-> username, fault |-> "find_one"],
              register_except(DirectoryError))
    /\ UNCHANGED <<users, now, bearer>>

\* register_user: insert_one raises, or the find_one after the insertion does
RegisterInsertFails ==
    /\ pc = "register"
    /\ Len(users) < MaxUsers
    /\ LET user_doc == create_user_document(loc.username, loc.hashed_password)
       IN  \/ /\ Finish("register", [username |-> loc.username, fault |-> "insert_one"],
                        register_except(DirectoryError))
              /\ UNCHANGED users
           \/ /\ insert_check(user_doc).exc = "none"
              /\ users' = Append(users, user_doc)
              /\ Finish("register", [username |-> loc.username, fault |-> "find_one"],
                        register_except(DirectoryError))
    /\ UNCHANGED <<now, bearer>>

\* login_user: find_one raises
LoginFindFails(username) ==
    /\ pc = "idle"
    /\ Finish("login", [username |-> username, fault |-> "find_one"],
              login_except(DirectoryError))
    /\ UNCHANGED <<users, now, bearer>>

\* login_user: update_one raises
LoginUpdateFails ==
    /\ pc = "login"
    /\ Finish("login", [username |-> loc.username, fault |-> "update_one"],
              login_except(DirectoryError))
    /\ UNCHANGED <<users, now, bearer>>

\* login_user_json: find_one raises
LoginJsonFindFails(username) ==
    /\ pc = "idle"
    /\ Finish("login_json", [username |-> username, fault |-> "find_one"],
              login_json_except(DirectoryError))
    /\ UNCHANGED <<users, now, bearer>>

\* login_user_json: update_one raises
LoginJsonUpdateFails ==
    /\ pc = "login_json"
    /\ Finish("login_json", [username |-> loc.username, fault |-> "update_one"],
              login_json_except(DirectoryError))
    /\ UNCHANGED <<users, now, bearer>>

\* get_current_user: the token is decoded and carries a subject, find_one raises
GetCurrentUserFails(token) ==
    /\ pc = "idle"
    /\ decode_token(token, now) # <<>>
    /\ ~NoSubject(token)
    /\ Finish("get_current_user", [token |-> token, fault |-> "find_one"],
              get_current_user_except(DirectoryError))
    /\ UNCHANGED <<users, now, bearer>>

\* ------------------------------------------------------ the /users read routes
\* Each route depends on get_current_user: the handler runs only with a principal,
\* and an exception of the gate is the route's response.

\* UserService.get_user_by_username once the directory is read
user_by_username(user) ==
    IF user = 0
    THEN HTTPException(404, "User not found")
    ELSE Response(200, user_helper(user, users[user]))

\* GET /users/me: the gate
GetMyAccountGate(token) ==
    /\ pc = "idle"
    /\ LET payload == decode_token(token, now)
       IN  \E user \in gate_find_one(payload) :
             LET r == current_user(payload, user)
             IN  IF r.exc # "none"
                 THEN Finish("get_my_account",
                             [stage |-> "gate", token |-> token, read |-> user], r)
                 ELSE Goto("get_my_account", [current_user |-> r.body])
    /\ UNCHANGED <<users, now, bearer>>

\* GET /users/me: get_user_by_username(current_user["username"]), UserOut
GetMyAccount ==
    /\ pc = "get_my_account"
    /\ \E user \in find_one(loc.current_user.username) :
         LET r == user_by_username(user)
         IN  Finish("get_my_account",
                    [stage |-> "handler", current_user |-> loc.current_user, read |-> user],
                    IF r.exc # "none" THEN service_except(r)
                    ELSE Response(200, UserOut(r.body)))
    /\ UNCHANGED <<users, now, bearer>>

\* find({}, {"password": 0}).skip(skip).limit(limit), each document with its id
users_page(skip, limit) ==
    [ k \in 1..(IF Len(users) - skip < limit
                THEN (IF Len(users) > skip THEN Len(users) - skip ELSE 0)
                ELSE limit) |-> without_password(skip + k, users[skip + k]) ]

\* GET /users: the gate
GetUsersGate(token, skip, limit) ==
    /\ pc = "idle"
    /\ LET payload == decode_token(token, now)
       IN  \E user \in gate_find_one(payload) :
             LET r == current_user(payload, user)
             IN  IF r.exc # "none"
                 THEN Finish("get_users",
                             [stage |-> "gate", token |-> token, read |-> user], r)
                 ELSE Goto("get_users", [skip |-> skip, limit |-> limit])
    /\ UNCHANGED <<users, now, bearer>>

\* GET /users: get_users_with_pagination, UserOut of each document
GetUsers ==
    /\ pc = "get_users"
    /\ LET page == users_page(loc.skip, loc.limit)
       IN  Finish("get_users",
                  [stage |-> "handler", skip |-> loc.skip, limit |-> loc.limit],
                  Response(200, [k \in DOMAIN page |-> UserOut(page[k])]))
    /\ UNCHANGED <<users, now, bearer>>

\* GET /users/count: the gate
GetUsersCountGate(token) ==
    /\ pc = "idle"
    /\ LET payload == decode_token(token, now)
       IN  \E user \in gate_find_one(payload) :
             LET r == current_user(payload, user)
             IN  IF r.exc # "none"
                 THEN Finish("get_users_count",
                             [stage |-> "gate", token |-> token, read |-> user], r)
                 ELSE Goto("get_users_count", Idle)
    /\ UNCHANGED <<users, now, bearer>>

\* get_users_count: count_documents({})
CountTotal ==
    /\ pc = "get_users_count"
    /\ Goto("active_count", [total_count |-> Len(users)])
    /\ UNCHANGED <<users, now, bearer>>

\* get_users_count: count_documents({"is_active": True}), then the response
CountActive ==
    /\ pc = "active_count"
    /\ Finish("get_users_count", [stage |-> "handler"],
              Response(200, [ total_users  |-> loc.total_count,
                              active_users |->
                                  Cardinality({i \in DOMAIN users : users[i].is_active}) ]))
    /\ UNCHANGED <<users, now, bearer>>

\* UserService.get_user_by_id: find_one by id, password excluded
GetUserById(id) ==
    /\ pc = "idle"
    /\ LET r == by_id_check(id, find_by_id(id), "Invalid user ID format")
       IN  Finish("get_user_by_id", [id |-> id, read |-> find_by_id(id)],
                  IF r.exc # "none" THEN service_except(r)
                  ELSE Response(200, without_password(id, users[id])))
    /\ UNCHANGED <<users, now, bearer>>

\* ------------------------------------------------- UserRegister validation
\* A username in a request body is a sequence of characters.  The records of the
\* other specifications hold names that went through this validation already.

\* Field(min_length=3, max_length=50)
min_length == 3
max_length == 50

\* the characters str.strip() removes
Whitespace == {" ", "\n"}

\* the class [a-zA-Z0-9_]
WordChars == {"a", "1", "_"}

RECURSIVE lstrip(_)
lstrip(v) == IF v # <<>> /\ Head(v) \in Whitespace THEN lstrip(Tail(v)) ELSE v

RECURSIVE rstrip(_)
rstrip(v) ==
    IF v # <<>> /\ v[Len(v)] \in Whitespace THEN rstrip(SubSeq(v, 1, Len(v) - 1)) ELSE v

\* str.strip()
strip(v) == rstrip(lstrip(v))

\* re.match(r'^[a-zA-Z0-9_]+$', v): one or more word characters up to the end of
\* the string, where $ also matches just before a newline that ends the string
re_match(v) ==
    \/ /\ Len(v) >= 1
       /\ \A k \in 1..Len(v) : v[k] \in WordChars
    \/ /\ Len(v) >= 2
       /\ v[Len(v)] = "\n"
       /\ \A k \in 1..(Len(v) - 1) : v[k] \in WordChars

RequestValidationError(msg) ==
    [exc |-> "RequestValidationError", status |-> 422, detail |-> msg]

\* the username field of UserRegister: the Field constraints on the value
\* received, then validate_username, which returns v.strip()
validate_username(v) ==
    IF Len(v) < min_length
    THEN RequestValidationError("ensure this value has at least 3 characters")
    ELSE IF Len(v) > max_length
    THEN RequestValidationError("ensure this value has at most 50 characters")
    ELSE IF Len(v) < 3
    THEN RequestValidationError("Username must be at least 3 characters")
    ELSE IF ~re_match(v)
    THEN RequestValidationError("Username can only contain letters, numbers, and underscores")
    ELSE Response(200, strip(v))

\* the usernames sent: word characters, as many as the length limits or one or
\* two more or fewer, between runs of other characters
Affixes == UNION {[1..k -> {" ", "\n", "-"}] : k \in 0..MaxFix}

RawUsernames ==
    { pre \o [k \in 1..n |-> "a"] \o post :
        pre \in Affixes, post \in Affixes,
        n \in ((min_length - 2)..(min_length + 1)) \cup ((max_length - 1)..(max_length + 1)) }

\* POST /auth/register: the body is validated by UserRegister, then register_user
\* runs (no other request runs meanwhile): existence check, create_user_document
\* (which strips the username again), insert_one, response
RegisterRequest(raw, password) ==
    /\ pc = "idle"
    /\ LET v == validate_username(raw)
       IN  IF v.exc # "none"
           THEN /\ Finish("register", [raw |-> raw, validated |-> <<>>], v)
                /\ UNCHANGED users
           ELSE \E existing \in find_one(v.body) :
                  LET r == register_check(existing)
                      user_doc == create_user_document(strip(v.body), hash_password(password))
                      req == [raw |-> raw, validated |-> <<v.body>>]
                  IN  IF r.exc # "none"
                      THEN /\ Finish("register", req, register_except(r))
                           /\ UNCHANGED users
                      ELSE /\ Len(users) < MaxUsers
                           /\ users' = Append(users, user_doc)
                           /\ Finish("register", req,
                                     Response(201, UserOut(user_helper(Len(users) + 1, user_doc))))
    /\ UNCHANGED <<now, bearer>>

\* ---- the password field of UserRegister
\* Field(min_length=8, max_length=20)
password_min_length == 8
password_max_length == 20

\* a character of [A-Z], one of [a-z], an ASCII digit, a decimal digit outside
\* ASCII (ARABIC-INDIC DIGIT THREE) and a character of none of these classes
PasswordChars == {"A", "a", "1", "U+0663", "_"}

\* \d in a str pattern: every Unicode decimal digit
DecimalDigits == {"1", "U+0663"}

\* the Field constraints, then validate_password, which returns v itself
validate_password(v) ==
    IF Len(v) < password_min_length
    THEN RequestValidationError("ensure this value has at least 8 characters")
    ELSE IF Len(v) > password_max_length
    THEN RequestValidationError("ensure this value has at most 20 characters")
    ELSE IF Len(v) < 8
    THEN RequestValidationError("Password must be at least 8 characters")
    ELSE IF ~(\E k \in 1..Len(v) : v[k] = "A")
    THEN RequestValidationError("Password must contain at least one uppercase letter")
    ELSE IF ~(\E k \in 1..Len(v) : v[k] = "a")
    THEN RequestValidationError("Password must contain at least one lowercase letter")
    ELSE IF ~(\E k \in 1..Len(v) : v[k] \in DecimalDigits)
    THEN RequestValidationError("Password must contain at least one digit")
    ELSE Response(200, v)

\* the passwords sent: MaxClassChars characters of any class, filled up with
\* classless characters to a length at, just under or just over a length limit
RawPasswords ==
    { head \o [k \in 1..(n - MaxClassChars) |-> "_"] :
        head \in [1..MaxClassChars -> PasswordChars],
        n \in ((password_min_length - 1)..(password_min_length + 1))
                \cup ((password_max_length - 1)..(password_max_length + 1)) }

\* POST /auth/register with both fields validated: UserRegister raises when either
\* field fails, else register_user runs with the validated values
RegisterBody(username, password) ==
    /\ pc = "idle"
    /\ LET u == validate_username(username)
           w == validate_password(password)
           req == [username |-> username, password |-> password]
       IN  IF u.exc # "none"
           THEN /\ Finish("register", req, u)
                /\ UNCHANGED users
           ELSE IF w.exc # "none"
           THEN /\ Finish("register", req, w)
                /\ UNCHANGED users
           ELSE \E existing \in find_one(u.body) :
                  LET r == register_check(existing)
                      user_doc == create_user_document(strip(u.body), hash_password(w.body))
                  IN  IF r.exc # "none"
                      THEN /\ Finish("register", req, register_except(r))
                           /\ UNCHANGED users
                      ELSE /\ Len(users) < MaxUsers
                           /\ users' = Append(users, user_doc)
                           /\ Finish("register", req,
                                     Response(201, UserOut(user_helper(Len(users) + 1, user_doc))))
    /\ UNCHANGED <<now, bearer>>

\* ---------------------------------------------------- the token codec alone
\* create_token({"sub": sub}, expires_minutes) called on its own; the caller
\* receives the token
CreateToken(sub, expires_minutes, skew) ==
    /\ pc = "idle"
    /\ now + skew <= MaxTime
    /\ now' = now + skew
    /\ bearer' = <<create_token_expiring(sub, expires_minutes, skew)>>
    /\ Finish("create_token", [sub |-> sub, expires_minutes |-> expires_minutes],
              Response(200, create_token_expiring(sub, expires_minutes, skew)))
    /\ UNCHANGED users

\* decode_token(token) called on its own
DecodeToken(token) ==
    /\ pc = "idle"
    /\ Finish("decode_token", [token |-> token], Response(200, decode_token(token, now)))
    /\ UNCHANGED <<users, now, bearer>>

\* ------------------------------------------------------------------ clock
Tick ==
    /\ pc # "done"
    /\ now < MaxTime
    /\ now' = now + 1
    /\ UNCHANGED <<users, bearer, pc, loc, resp>>

\* the response is delivered, before anything else happens
Return ==
    /\ pc = "done"
    /\ pc' = "idle"
    /\ resp' = Idle
    /\ UNCHANGED <<users, now, bearer, loc>>

Init ==
    /\ users = <<>>
    /\ now = 0
    /\ bearer = <<>>
    /\ pc = "idle"
    /\ loc = Idle
    /\ resp = Idle

Next ==
    \/ \E u \in Usernames, p \in RegisterPasswords : RegisterFind(u, p)
    \/ RegisterInsert
    \/ \E u \in Usernames, p \in Passwords : LoginFind(u, p)
    \/ LoginUpdate
    \/ \E u \in Usernames, p \in Passwords : LoginJsonFind(u, p)
    \/ LoginJsonUpdate
    \/ \E t \in Presentable : GetCurrentUser(t)
    \/ \E a \in {<<>>} \cup {<<t>> : t \in Presentable} : GetCurrentUserOptional(a)
    \/ \E id \in 1..MaxUsers : DeactivateUser(id)
    \/ \E id \in 1..MaxUsers, d \in UserUpdate : UpdateUser(id, d)
    \/ Return
    \/ \E u \in Usernames, p \in RegisterPasswords : OtherRegister(u, p)
    \/ \E u \in Usernames, p \in Passwords : OtherLogin(u, p)
    \/ \E u \in Usernames, p \in Passwords : OtherLoginJson(u, p)
    \/ \E id \in 1..MaxUsers : OtherDeactivate(id)
    \/ \E id \in 1..MaxUsers, d \in UserUpdate : OtherUpdate(id, d)
    \/ Tick

Spec == Init /\ [][Next]_vars

\* the /users routes: the followed request is a registration, a call of the gate,
\* an update or one of the read routes; the requests of other workers as in Spec
UsersNext ==
    \/ \E u \in Usernames, p \in RegisterPasswords : RegisterFind(u, p)
    \/ RegisterInsert
    \/ \E t \in Presentable : GetCurrentUser(t)
    \/ \E id \in 1..MaxUsers, d \in UserUpdate : UpdateUser(id, d)
    \/ \E t \in Presentable : GetMyAccountGate(t)
    \/ GetMyAccount
    \/ \E t \in Presentable, skip \in {0, 1}, limit \in {1, 2} : GetUsersGate(t, skip, limit)
    \/ GetUsers
    \/ \E t \in Presentable : GetUsersCountGate(t)
    \/ CountTotal
    \/ CountActive
    \/ \E id \in 1..MaxUsers : GetUserById(id)
    \/ Return
    \/ \E u \in Usernames, p \in RegisterPasswords : OtherRegister(u, p)
    \/ \E u \in Usernames, p \in Passwords : OtherLogin(u, p)
    \/ \E u \in Usernames, p \in Passwords : OtherLoginJson(u, p)
    \/ \E id \in 1..MaxUsers : OtherDeactivate(id)
    \/ \E id \in 1..MaxUsers, d \in UserUpdate : OtherUpdate(id, d)
    \/ Tick

UsersSpec == Init /\ [][UsersNext]_vars

\* the core operations with a directory that may fail at any call: the followed
\* request is a registration, a login or a call of the gate
FaultNext ==
    \/ \E u \in Usernames, p \in RegisterPasswords : RegisterFind(u, p)
    \/ RegisterInsert
    \/ \E u \in Usernames, p \in Passwords : LoginFind(u, p)
    \/ LoginUpdate
    \/ \E u \in Usernames, p \in Passwords : LoginJsonFind(u, p)
    \/ LoginJsonUpdate
    \/ \E t \in Presentable : GetCurrentUser(t)
    \/ \E u \in Usernames : RegisterFindFails(u)
    \/ RegisterInsertFails
    \/ \E u \in Usernames : LoginFindFails(u)
    \/ LoginUpdateFails
    \/ \E u \in Usernames : LoginJsonFindFails(u)
    \/ LoginJsonUpdateFails
    \/ \E t \in Presentable : GetCurrentUserFails(t)
    \/ Return
    \/ \E u \in Usernames, p \in RegisterPasswords : OtherRegister(u, p)
    \/ \E u \in Usernames, p \in Passwords : OtherLogin(u, p)
    \/ \E id \in 1..MaxUsers : OtherDeactivate(id)
    \/ \E id \in 1..MaxUsers, d \in UserUpdate : OtherUpdate(id, d)
    \/ Tick

FaultSpec == Init /\ [][FaultNext]_vars

\* registration requests with usernames as they come in, one after the other
ValidationNext ==
    \/ \E raw \in RawUsernames, p \in RegisterPasswords : RegisterRequest(raw, p)
    \/ Return

ValidationSpec == Init /\ [][ValidationNext]_vars

\* registration requests with a well-formed username and passwords as they come in
PasswordNext ==
    \/ \E u \in {<<"a", "a", "a">>}, p \in RawPasswords : RegisterBody(u, p)
    \/ Return

PasswordSpec == Init /\ [][PasswordNext]_vars

\* the by-id methods of UserService called one after the other, with ids of
\* documents, ids of no document and a malformed id
ByIdNext ==
    \/ \E id \in 1..MaxUsers \cup {MalformedId} : GetUserById(id)
    \/ \E id \in 1..MaxUsers \cup {MalformedId}, d \in UserUpdate : UpdateUser(id, d)
    \/ \E id \in 1..MaxUsers \cup {MalformedId} : DeactivateUser(id)
    \/ Return
    \/ \E u \in Usernames, p \in RegisterPasswords : OtherRegister(u, p)
    \/ Tick

ByIdSpec == Init /\ [][ByIdNext]_vars

\* the token codec: any clock reading to start from, no request to the routes
TokenInit ==
    /\ users = <<>>
    /\ now \in 0..MaxTime
    /\ bearer = <<>>
    /\ pc = "idle"
    /\ loc = Idle
    /\ resp = Idle

TokenNext ==
    \/ \E sub \in Usernames, expires_minutes \in 1..MaxLifetime, skew \in {0, 1} :
          CreateToken(sub, expires_minutes, skew)
    \/ \E t \in Presentable : DecodeToken(t)
    \/ Return
    \/ Tick

TokenSpec == TokenInit /\ [][TokenNext]_vars

\* ------------------------------------------------------------------ claims
\* C1: of two register_user requests for one username that run concurrently only
\* one creates a record: whenever a registration is answered 201, exactly one
\* record holds the username it registered.
C1_OneRegistrationWins ==
    (pc = "done" /\ resp.op = "register" /\ resp.out.status = 201)
        => Cardinality(Matching(resp.req.username)) = 1

\* C2: a register_user request whose username a record already holds is answered
\* 400 'Username already registered' and leaves the directory as it was.
C2_ExistingUsernameRefused ==
    [][ (pc = "idle" /\ pc' = "done" /\ resp'.op = "register")
            => /\ resp'.out = HTTPException(400, "Username already registered")
               /\ users' = users ]_vars

\* C3: on either login route a wrong password for an existing username gets the
\* very response (status and message) the route gives for a username nobody holds.
C3_IndistinguishableFailures ==
    (/\ pc = "done"
     /\ resp.op \in {"login", "login_json"}
     /\ resp.req.read # 0
     /\ ~verify_password(resp.req.password, users[resp.req.read].password))
        => resp.out = IF resp.op = "login"
                      THEN login_except(login_check(0, resp.req.password))
                      ELSE login_json_except(login_json_check(0, resp.req.password))

\* C4 (as stated): a call of the gate with a genuine token naming a deactivated
\* account (the only record of that username) fails with 401 'Account is
\* deactivated'.
C4_DeactivatedAlwaysRejected ==
    (/\ pc = "done" /\ resp.op = "get_current_user"
     /\ resp.req.token.sig = "HS256"
     /\ ~NoSubject(resp.req.token)
     /\ Cardinality(Matching(resp.req.token.sub)) = 1)
        => \A i \in DOMAIN users :
              (users[i].username = resp.req.token.sub /\ ~users[i].is_active)
                  => resp.out = HTTPException(401, "Account is deactivated")

\* C4 (amended): the gate yields a principal only from a record that is active
\* when the gate reads it, the principal carries is_active = true, and a call
\* whose lookup returns an inactive record fails with 401 'Account is deactivated'.
C4_GateRejectsInactive ==
    pc = "done" /\ resp.op = "get_current_user"
        => LET user == resp.req.read
           IN  /\ resp.out.exc = "none"
                    => /\ user # 0
                       /\ users[user].is_active
                       /\ resp.out.body.user_id = user
                       /\ resp.out.body.is_active = TRUE
               /\ (user # 0 /\ ~users[user].is_active)
                    => resp.out = HTTPException(401, "Account is deactivated")

\* the gate has just refused a token whose record is inactive
C4_Witness ==
    /\ pc = "done" /\ resp.op = "get_current_user"
    /\ resp.req.read # 0
    /\ ~users[resp.req.read].is_active
    /\ resp.out.status = 401

\* C5: a token whose exp lies before the current time is rejected by the decoder
\* as expired and by the gate with 401; it never yields a payload or a principal.
C5_ExpiredTokenRejected ==
    /\ \A i \in DOMAIN bearer :
          bearer[i].exp < now
              => /\ TokenRejection(bearer[i], now) = "ExpiredSignatureError"
                 /\ decode_token(bearer[i], now) = <<>>
    /\ (pc = "done" /\ resp.op = "get_current_user" /\ resp.req.token.exp < now)
          => resp.out = credentials_exception

\* the gate has just answered a genuine token that had expired
C5_Witness ==
    /\ pc = "done" /\ resp.op = "get_current_user"
    /\ resp.req.token.sig = "HS256"
    /\ resp.req.token.exp < now
    /\ resp.out.status = 401

\* C6: login_user_json with the correct password of a record that is inactive is
\* answered 401 'Account is deactivated', changes no record and issues no token;
\* it goes on to the login update only for a record it read as active.
C6_InactiveLoginJsonRefused ==
    [][ /\ (/\ pc = "idle" /\ pc' = "done" /\ resp'.op = "login_json"
            /\ resp'.req.read # 0
            /\ verify_password(resp'.req.password, users[resp'.req.read].password)
            /\ ~users[resp'.req.read].is_active)
           => /\ resp'.out = HTTPException(401, "Account is deactivated")
              /\ users' = users
              /\ bearer' = bearer
        /\ (pc = "idle" /\ pc' = "login_json")
           => users[loc'.id].is_active ]_vars

\* login_user_json has just refused an inactive account
C6_Witness ==
    /\ pc = "done" /\ resp.op = "login_json"
    /\ resp.req.read # 0
    /\ ~users[resp.req.read].is_active
    /\ verify_password(resp.req.password, users[resp.req.read].password)
    /\ resp.out = HTTPException(401, "Account is deactivated")

\* C7 (as stated): no operation sets is_active back to true.
C7_NoReactivation ==
    [][ \A i \in DOMAIN users : ~users[i].is_active => ~users'[i].is_active ]_vars

\* C7 (amended): is_active goes from false to true only by update_user_by_id
\* with is_active = true; register, both logins, deactivate_user_by_id, every
\* other update and the reads leave an inactive record inactive.
C7_ReactivationOnlyByUpdate ==
    [][ \A i \in DOMAIN users :
           (~users[i].is_active /\ users'[i].is_active)
               => \E d \in UserUpdate :
                     /\ d.is_active = <<TRUE>>
                     /\ users' = [users EXCEPT ![i] = updated(@, d)] ]_vars

\* a form login has just succeeded on an inactive record, which is still inactive
C7_Witness ==
    /\ pc = "done" /\ resp.op = "login"
    /\ resp.out.status = 200
    /\ ~users[resp.req.read].is_active

\* C8: no two records of the directory share a username.
C8_UniqueUsernames ==
    \A i, j \in DOMAIN users : users[i].username = users[j].username => i = j

\* C9: deactivate_user_by_id on an existing record answers 204 when the record
\* was active and fails with 400 'User already deactivated' when it was inactive.
C9_SecondDeactivateRefused ==
    [][ (pc = "idle" /\ pc' = "done" /\ resp'.op = "deactivate" /\ resp'.req.read # 0)
            => resp'.out = IF users[resp'.req.read].is_active
                           THEN Response(204, <<>>)
                           ELSE HTTPException(400, "User already deactivated") ]_vars

\* C10: login_count is 0 in a new record, never decreases, and a login request
\* raises it (by one, on the record it read) exactly when it returns a token.
C10_CountEqualsTokens ==
    [][ /\ \A i \in DOMAIN users' \ DOMAIN users : users'[i].login_count = 0
        /\ \A i \in DOMAIN users : users'[i].login_count >= users[i].login_count
        /\ (pc' = "done" /\ resp'.op \in {"login", "login_json"})
              => \A i \in DOMAIN users :
                    users'[i].login_count =
                        users[i].login_count +
                            (IF resp'.req.read = i /\ resp'.out.status = 200
                             THEN 1 ELSE 0) ]_vars

C12_OptionalNeverFails ==
    (pc = "done" /\ resp.op = "get_current_user_optional")
        => /\ resp.out.exc = "none"
           /\ (resp.req.authorization # <<>>
               /\ current_user(decode_token(resp.req.authorization[1], now),
                               resp.req.read).exc # "none")
                 => resp.out.body = <<>>

\* C13: GET /users/me, GET /users and GET /users/count fail only with 401.
C13_ReadRoutesFailOnly401 ==
    (/\ pc = "done"
     /\ resp.op \in {"get_my_account", "get_users", "get_users_count"}
     /\ resp.out.exc # "none")
        => resp.out.status = 401

\* C14: a directory fault during register_user, login_user, login_user_json or
\* get_current_user is answered 500 with one of the handlers' fixed messages,
\* never with another status and never with the text of the directory's error.
C14_FaultsAnswered500 ==
    (pc = "done" /\ "fault" \in DOMAIN resp.req)
        => /\ resp.out.status = 500
           /\ resp.out.detail \in {"Internal server error", "Login failed. Please try again."}
           /\ resp.out.detail # DirectoryError.detail

\* C15: the password hash is never returned: no response of register_user,
\* get_my_account, get_users, get_user_by_id or update_user and no principal of
\* get_current_user carries the password field of a record.
C15_HashNeverReturned ==
    /\ (/\ pc = "done"
        /\ resp.op \in {"register", "get_my_account", "get_user_by_id", "update",
                        "get_current_user"}
        /\ resp.out.exc = "none")
          => "password" \notin DOMAIN resp.out.body
    /\ (pc = "done" /\ resp.op = "get_users" /\ resp.out.exc = "none")
          => \A k \in DOMAIN resp.out.body : "password" \notin DOMAIN resp.out.body[k]
    /\ pc = "get_my_account" => "password" \notin DOMAIN loc.current_user

\* get_user_by_id has just returned a record that stores a password hash
C15_Witness ==
    /\ pc = "done" /\ resp.op = "get_user_by_id"
    /\ resp.out.exc = "none"
    /\ users[resp.req.id].password = hash_password("Passw0rd")
    /\ resp.out.body.username = users[resp.req.id].username

\* C16: records are never physically deleted: no step removes an identifier from
\* the directory, and deactivate_user_by_id leaves the record it addresses in
\* place with its username and password hash, inactive, and touches no other record.
C16_NeverDeleted ==
    [][ /\ DOMAIN users \subseteq DOMAIN users'
        /\ (pc = "idle" /\ pc' = "done" /\ resp'.op = "deactivate" /\ resp'.req.read # 0)
              => LET i == resp'.req.read
                 IN  /\ users'[i].username = users[i].username
                     /\ users'[i].password = users[i].password
                     /\ users'[i].created_at = users[i].created_at
                     /\ ~users'[i].is_active
                     /\ \A j \in DOMAIN users \ {i} : users'[j] = users[j] ]_vars

\* DELETE /users/{id} has just answered 204 and the record is still there, inactive
C16_Witness ==
    /\ pc = "done" /\ resp.op = "deactivate"
    /\ resp.out.status = 204
    /\ resp.req.read \in DOMAIN users
    /\ ~users[resp.req.read].is_active
    /\ users[resp.req.read].username \in Usernames

\* C17: every token create_token produces has exp = iat + lifetime exactly,
\* whatever the clock does between the steps of create_token.
C17_ExpiryIsIssuedPlusLifetime ==
    (pc = "done" /\ resp.op = "create_token")
        => resp.out.body.exp = resp.out.body.iat + resp.req.expires_minutes

\* C18: decode_token returns no claims for a token whose type is not
\* "access_token", even when its signature is valid and it has not expired, and
\* get_current_user answers such a token with the credentials error, never with
\* a principal.
C18_WrongKindRejected ==
    /\ \A t \in Presentable : t.type # "access_token" => decode_token(t, now) = <<>>
    /\ (pc = "done" /\ resp.op = "get_current_user"
        /\ resp.req.token.type # "access_token")
          => resp.out = credentials_exception

\* the gate has just refused a signed, unexpired token of another kind whose
\* subject is an active account
C18_Witness ==
    /\ pc = "done" /\ resp.op = "get_current_user"
    /\ resp.req.token.type # "access_token"
    /\ resp.req.token.sig = "HS256"
    /\ resp.req.token.exp >= now
    /\ \E i \in DOMAIN users :
          users[i].username = resp.req.token.sub /\ users[i].is_active
    /\ resp.out = credentials_exception

\* C19: every username the validation accepts is, once trimmed, a word of 3 to
\* 50 characters of [A-Za-z0-9_]; every input whose trimmed form is not such a
\* word is rejected with a validation error, and no other username is stored.
C19_AcceptedUsernamesWellFormed ==
    /\ (pc = "done" /\ resp.op = "register")
          => LET u == strip(resp.req.raw)
                 wellFormed == /\ Len(u) >= 3 /\ Len(u) <= 50
                               /\ \A k \in 1..Len(u) : u[k] \in WordChars
             IN  ~wellFormed => resp.out.exc = "RequestValidationError"
    /\ \A i \in DOMAIN users :
          /\ Len(users[i].username) >= 3 /\ Len(users[i].username) <= 50
          /\ \A k \in 1..Len(users[i].username) : users[i].username[k] \in WordChars

\* C20: the validation trims before it checks: an input with whitespace around
\* a word of 3 to 50 characters of [A-Za-z0-9_] is accepted and the trimmed word
\* is what the validation returns.
C20_TrimmedBeforeChecks ==
    (pc = "done" /\ resp.op = "register")
        => LET u == strip(resp.req.raw)
           IN  (/\ Len(u) >= 3 /\ Len(u) <= 50
                /\ \A k \in 1..Len(u) : u[k] \in WordChars)
                   => resp.req.validated = <<u>>

\* C21: registration accepts a password exactly when it has 8 to 20 characters
\* and holds an ASCII uppercase letter, an ASCII lowercase letter and an ASCII
\* digit; the accepted password is hashed as it was sent.
C21_PasswordAcceptedIff ==
    (pc = "done" /\ resp.op = "register")
        => LET p == resp.req.password
               conforms == /\ Len(p) >= 8 /\ Len(p) <= 20
                           /\ \E k \in 1..Len(p) : p[k] = "A"
                           /\ \E k \in 1..Len(p) : p[k] = "a"
                           /\ \E k \in 1..Len(p) : p[k] = "1"
           IN  /\ (resp.out.exc # "RequestValidationError") <=> conforms
               /\ resp.out.status = 201
                    => users[resp.out.body.id].password = hash_password(p)

\* C22: a login (on either route) that returns no token leaves login_count,
\* last_login and updated_at of every record as they were.
C22_FailedLoginChangesNothing ==
    [][ (/\ pc # "done" /\ pc' = "done"
         /\ resp'.op \in {"login", "login_json"}
         /\ resp'.out.status # 200)
            => \A i \in DOMAIN users :
                  /\ users'[i].login_count = users[i].login_count
                  /\ users'[i].last_login = users[i].last_login
                  /\ users'[i].updated_at = users[i].updated_at ]_vars

\* C23: a token authenticates only the record it was issued for.  A token is
\* issued by a login of a record, which raises that record's login_count and
\* happens no earlier than the record's creation; so whenever the gate returns
\* a principal for a token, the principal's record has been logged in to and
\* existed when the token was issued.  (Stated for directories in which no two
\* records share a username.)
C23_TokenNamesItsRecord ==
    (/\ pc = "done" /\ resp.op = "get_current_user" /\ resp.out.exc = "none"
     /\ \A i, j \in DOMAIN users : users[i].username = users[j].username => i = j)
        => /\ users[resp.out.body.user_id].login_count >= 1
           /\ users[resp.out.body.user_id].created_at <= resp.req.token.iat

\* C24: GET /users/me never returns a projection with is_active = false: a 200
\* response always describes an active account, whatever runs between the
\* gate's read and the handler's read.
C24_MyAccountIsActive ==
    (pc = "done" /\ resp.op = "get_my_account" /\ resp.out.exc = "none")
        => resp.out.body.is_active

\* C25: get_users_count returns active_users <= total_users, whatever runs
\* between its two count queries.
C25_ActiveAtMostTotal ==
    (pc = "done" /\ resp.op = "get_users_count" /\ resp.out.exc = "none")
        => resp.out.body.active_users <= resp.out.body.total_users

\* C26: the form login does not enforce the active-account check: with the
\* correct password of an inactive account it is never refused as deactivated,
\* the token it returns comes with an increment of the record's login_count,
\* and get_current_user rejects that token while the account is inactive.
\* (Stated for directories in which no two records share a username.)
C26_FormLoginOfInactiveAccount ==
    [][ (/\ pc # "done" /\ pc' = "done" /\ resp'.op = "login"
         /\ resp'.req.read # 0
         /\ verify_password(resp'.req.password, users'[resp'.req.read].password)
         /\ ~users'[resp'.req.read].is_active
         /\ \A i, j \in DOMAIN users' : users'[i].username = users'[j].username => i = j)
            => /\ resp'.out.status # 401
               /\ resp'.out.status = 200
                    => /\ users'[resp'.req.read].login_count
                             = users[resp'.req.read].login_count + 1
                       /\ \A i \in DOMAIN users' :
                             users'[i].username = resp'.out.body.access_token.sub
                                 => ~users'[i].is_active ]_vars

\* C27: login_user_json verifies the password before it looks at the active
\* flag: a wrong password gets 401 'Invalid username or password' whether the
\* account is active or not, and 'Account is deactivated' is answered only to a
\* request carrying the correct password of the record read.
C27_PasswordBeforeActiveFlag ==
    (pc = "done" /\ resp.op = "login_json" /\ resp.req.read # 0)
        => /\ ~verify_password(resp.req.password, users[resp.req.read].password)
                => resp.out = HTTPException(401, "Invalid username or password")
           /\ resp.out = HTTPException(401, "Account is deactivated")
                => verify_password(resp.req.password, users[resp.req.read].password)

\* login_user_json has just refused a wrong password for an inactive account
C27_Witness ==
    /\ pc = "done" /\ resp.op = "login_json"
    /\ resp.req.read # 0
    /\ ~users[resp.req.read].is_active
    /\ ~verify_password(resp.req.password, users[resp.req.read].password)
    /\ resp.out = HTTPException(401, "Invalid username or password")

\* C28: deactivate_user_by_id changes only is_active and updated_at of the record
\* it addresses: that record's username, password hash, created_at, last_login
\* and login_count and every other record stay as they were.
C28_DeactivateFrame ==
    [][ (pc = "idle" /\ pc' = "done" /\ resp'.op = "deactivate" /\ resp'.req.read # 0)
            => LET i == resp'.req.read
               IN  /\ DOMAIN users' = DOMAIN users
                   /\ \A j \in DOMAIN users :
                         /\ users'[j].username = users[j].username
                         /\ users'[j].password = users[j].password
                         /\ users'[j].created_at = users[j].created_at
                         /\ users'[j].last_login = users[j].last_login
                         /\ users'[j].login_count = users[j].login_count
                         /\ j # i => users'[j] = users[j] ]_vars

\* DELETE /users/{id} has just answered for a record that had logged in, with
\* another record in the directory
C28_Witness ==
    /\ pc = "done" /\ resp.op = "deactivate"
    /\ resp.req.read # 0
    /\ Len(users) = 2
    /\ users[resp.req.read].login_count >= 1
    /\ users[resp.req.read].last_login # <<>>
    /\ ~users[resp.req.read].is_active

\* C29: get_user_by_id, update_user_by_id and deactivate_user_by_id fail with 400
\* for a malformed id and with 404 for a well-formed id of no record, and in
\* both cases leave the directory as it was.
C29_BadIdsRefused ==
    [][ (/\ pc = "idle" /\ pc' = "done"
         /\ resp'.op \in {"get_user_by_id", "update", "deactivate"})
            => /\ resp'.req.id = MalformedId
                    => resp'.out.status = 400 /\ users' = users
               /\ (resp'.req.id # MalformedId /\ resp'.req.id \notin DOMAIN users)
                    => resp'.out.status = 404 /\ users' = users ]_vars

\* update_user_by_id has just refused a malformed id with records in the directory
C29_Witness ==
    /\ pc = "done" /\ resp.op = "update"
    /\ resp.req.id = MalformedId
    /\ resp.req.user_update.username # <<>>
    /\ resp.out.status = 400
    /\ Len(users) >= 1

====
